---------------------------- MODULE Spec2Model ----------------------------
(***************************************************************************)
(* DynamoODM: the list-query compiler (getList) and the update-merge of    *)
(* updateItem, modelled from src/src/DynamoODM.ts and                      *)
(* src/src/utils/helpers.ts.                                               *)
(*                                                                         *)
(* Strings that the code takes apart or glues together (field names,       *)
(* placeholders, expression fragments, logical operators) are sequences of *)
(* one-character strings.  JavaScript values are tagged records            *)
(* [k |-> kind, v |-> payload].                                            *)
(***************************************************************************)
EXTENDS Integers, Sequences, FiniteSets, TLC

VARIABLES
    \* ---- getList (one call at a time) ----
    lpc,        \* "idle" | "querying" | "thrown"
    req,        \* the arguments of the getList call in progress
    out,        \* what the synchronous part of getList built
    \* ---- updateItem ----
    store,      \* the table: a function from the keys that hold an item
    data,       \* the callers' update document objects (params.data), by id
    call,       \* per caller: position and locals of its updateItem call
    clock       \* source of new Date().toISOString()

listVars == <<lpc, req, out>>
updVars  == <<store, data, call, clock>>
vars     == <<lpc, req, out, store, data, call, clock>>

-----------------------------------------------------------------------------
(* Bounds *)

MaxFilters == 2     \* longest filter list passed to getList
MaxLen     == 2     \* longest add array / stored array
MaxRemove  == 1     \* longest remove array
MaxClock   == 2     \* number of facade calls in one behaviour

-----------------------------------------------------------------------------
(* JavaScript values *)

Undef     == [k |-> "undef", v |-> 0]
Null      == [k |-> "null", v |-> 0]
Str(s)    == [k |-> "str", v |-> s]
Num(n)    == [k |-> "num", v |-> n]
Bool(b)   == [k |-> "bool", v |-> b]
Arr(a)    == [k |-> "arr", v |-> a]
Obj(o)    == [k |-> "obj", v |-> o]
EmptyObj  == Obj(<<>>)

\* JavaScript truthiness
Truthy(x) ==
    CASE x.k = "undef" -> FALSE
      [] x.k = "null"  -> FALSE
      [] x.k = "str"   -> x.v # ""
      [] x.k = "num"   -> x.v # 0
      [] x.k = "bool"  -> x.v
      [] OTHER         -> TRUE

\* x?.name
Prop(x, name) ==
    IF x.k = "obj" /\ name \in DOMAIN x.v THEN x.v[name] ELSE Undef

Digit == <<"0", "1", "2", "3", "4", "5", "6", "7", "8", "9">>

RECURSIVE NumToString(_)
NumToString(n) ==
    IF n < 10 THEN Digit[n + 1]
    ELSE NumToString(n \div 10) \o Digit[(n % 10) + 1]

Unsupported == [k |-> "throw", v |-> "UnsupportedValueType"]

RECURSIVE toDynamoDBValue(_)
toDynamoDBValue(value) ==
    CASE value.k = "str"  -> value
      [] value.k = "num"  -> Str(NumToString(value.v))
      [] value.k = "arr"  ->
            LET enc == [i \in 1..Len(value.v) |-> toDynamoDBValue(value.v[i])]
            IN  IF \E i \in 1..Len(enc) : enc[i] = Unsupported
                THEN Unsupported ELSE Arr(enc)
      [] value.k = "bool" -> value
      [] value.k \in {"null", "undef"} -> Null
      [] OTHER -> Unsupported

-----------------------------------------------------------------------------
(* helpers.ts *)

\* the character class of replaceSymbol's regular expression
ForbiddenChars ==
    {"{", "}", "[", "]", "/", "?", ".", ",", ";", ":", "|", ")", "*", "~",
     "`", "!", "^", "-", "_", "+", "<", ">", "@", "#", "$", "%", "&", "\\",
     "=", "(", "'", "\"", " ", "\t", "\n"}

NotForbidden(c) == c \notin ForbiddenChars

replaceSymbol(str) == SelectSeq(str, NotForbidden)

isIterableArray(value) == Len(value) > 0

LowerLetters ==
    <<"a", "b", "c", "d", "e", "f", "g", "h", "i", "j", "k", "l", "m",
      "n", "o", "p", "q", "r", "s", "t", "u", "v", "w", "x", "y", "z">>
UpperLetters ==
    <<"A", "B", "C", "D", "E", "F", "G", "H", "I", "J", "K", "L", "M",
      "N", "O", "P", "Q", "R", "S", "T", "U", "V", "W", "X", "Y", "Z">>

ToUpperChar(c) ==
    IF \E i \in 1..26 : LowerLetters[i] = c
    THEN UpperLetters[CHOOSE i \in 1..26 : LowerLetters[i] = c]
    ELSE c
ToLowerChar(c) ==
    IF \E i \in 1..26 : UpperLetters[i] = c
    THEN LowerLetters[CHOOSE i \in 1..26 : UpperLetters[i] = c]
    ELSE c
toUpperCase(s) == [i \in 1..Len(s) |-> ToUpperChar(s[i])]
toLowerCase(s) == [i \in 1..Len(s) |-> ToLowerChar(s[i])]

AND == <<"A", "N", "D">>
OR  == <<"O", "R">>
UnknownLogicalOperator == <<"!", "t", "h", "r", "o", "w">>

\* a variant that compares without upper-casing first
convertLogicalOperator_CaseSensitive(operator) ==
    CASE operator = AND -> AND
      [] operator = OR  -> OR
      [] OTHER -> UnknownLogicalOperator

\* returns 'AND' or 'OR', or throws (UnknownLogicalOperator)
convertLogicalOperator(operator) ==
    LET upperCaseOperator == toUpperCase(operator)
    IN  CASE upperCaseOperator = AND -> AND
          [] upperCaseOperator = OR  -> OR
          [] OTHER -> UnknownLogicalOperator

s_begins_with == <<"b","e","g","i","n","s","_","w","i","t","h">>
s_contains    == <<"c","o","n","t","a","i","n","s">>
s_neq         == <<"n","e","q">>
s_less_than   == <<"l","e","s","s","_","t","h","a","n">>
s_less_or_equal == <<"l","e","s","s","_","o","r","_","e","q","u","a","l">>
s_greater_than == <<"g","r","e","a","t","e","r","_","t","h","a","n">>
s_greater_or_equal ==
    <<"g","r","e","a","t","e","r","_","o","r","_","e","q","u","a","l">>
s_between     == <<"b","e","t","w","e","e","n">>
s_attribute_not_exists ==
    <<"a","t","t","r","i","b","u","t","e","_","n","o","t","_",
      "e","x","i","s","t","s">>
s_attribute_exists ==
    <<"a","t","t","r","i","b","u","t","e","_","e","x","i","s","t","s">>
s_eq          == <<"e","q">>

setOperator(keyName, valueName, value2Name, operator) ==
    LET op == toLowerCase(operator)
    IN  CASE op \in {s_begins_with, s_contains} ->
                op \o <<"(">> \o keyName \o <<",", " ">> \o valueName \o <<")">>
          [] op = s_neq ->
                keyName \o <<" ", "<", ">", " ">> \o valueName
          [] op = s_less_than ->
                keyName \o <<" ", "<", " ">> \o valueName
          [] op = s_less_or_equal ->
                keyName \o <<" ", "<", "=", " ">> \o valueName
          [] op = s_greater_than ->
                keyName \o <<" ", ">", " ">> \o valueName
          [] op = s_greater_or_equal ->
                keyName \o <<" ", ">", "=", " ">> \o valueName
          [] op = s_between ->
                keyName \o <<" ", "B","E","T","W","E","E","N", " ">>
                        \o valueName \o <<" ", "A","N","D", " ">> \o value2Name
          [] op = s_attribute_not_exists ->
                s_attribute_not_exists \o <<"(">> \o keyName \o <<")">>
          [] op = s_attribute_exists ->
                s_attribute_exists \o <<"(">> \o keyName \o <<")">>
          [] OTHER ->
                keyName \o <<" ", "=", " ">> \o valueName

\* hashGenerator(length = 8): `length` characters of [0-9a-z], drawn at random
HashLength == 8
HashChars  == {"0", "z"}
hashGenerator == {[i \in 1..HashLength |-> c] : c \in HashChars}

\* Array.prototype.join
RECURSIVE join(_, _)
join(frags, sep) ==
    IF Len(frags) = 0 THEN <<>>
    ELSE IF Len(frags) = 1 THEN frags[1]
    ELSE frags[1] \o sep \o join(Tail(frags), sep)

-----------------------------------------------------------------------------
(* getList: inputs *)

s_pk   == <<"p", "k">>
s_sk   == <<"s", "k">>
s_date == <<"d", "a", "t", "e">>

\* params.pk: a scalar, or a mapping with a single entry (kind "entries")
PkMapping(name, value) ==
    [k |-> "entries", v |-> <<[key |-> name, value |-> value]>>]

PkChoices ==
    { Str("user#1"),
      Num(42),
      PkMapping(<<"a", "2">>, Str("u")) }

Filter(field, value, value2, operator) ==
    [field |-> field, value |-> value, value2 |-> value2, operator |-> operator]

FilterChoices ==
    { Filter(s_sk, Str("v"), Undef, s_eq),
      Filter(s_sk, Str("w"), Undef, s_begins_with),
      Filter(s_date, Str("2024"), Undef, s_greater_than),
      Filter(<<"a">>, Num(10), Num(20), s_between),
      Filter(<<"a", "2">>, Str("x"), Undef, s_eq),
      Filter(<<"b", ".", "c">>, Str("v"), Undef, s_contains) }

FilterLists ==
    UNION { [1..n -> FilterChoices] : n \in 0..MaxFilters }

\* Undef: the argument is left out and the default (LogicalOperator.AND) applies
KeyOperatorChoices ==
    { Str(<<"a", "n", "d">>), Str(<<"o", "R">>), Str(<<"X", "O", "R">>) }
FilterOperatorChoices ==
    { Undef, Str(<<"O", "r">>), Str(<<"a", "n", "d", " ">>) }

IndexNameChoices == { Undef, Str("gsi1") }

\* sort and startKey, drawn together
PagingChoices ==
    { [sort |-> Undef,       startKey |-> Undef],
      [sort |-> Str("DESC"), startKey |-> Str("cursor")],
      [sort |-> Str("ASC"),  startKey |-> EmptyObj] }

-----------------------------------------------------------------------------
(* getList: src/src/DynamoODM.ts lines 316-420 *)

\* destructuring default:  x = d
Default(x, d) == IF x = Undef THEN d ELSE x

\* lines 338-339
attrKey(pk)   == IF pk.k = "entries" THEN pk.v[1].key ELSE s_pk
attrValue(pk) == IF pk.k = "entries" THEN pk.v[1].value ELSE pk

\* lines 341-346
pkObj(pk) ==
    [attrKeyName   |-> <<"#">> \o replaceSymbol(attrKey(pk)),
     attrValueName |-> <<":">> \o replaceSymbol(attrKey(pk)),
     attrKey       |-> attrKey(pk),
     attrValue     |-> toDynamoDBValue(attrValue(pk))]

\* lines 359-361: the placeholders of one filter before any disambiguation
keyNameOf(field)    == <<"#">> \o field
valueNameOf(field)  == <<":">> \o field
value2NameOf(field) == <<":">> \o field \o <<"2">>

\* a variant that routes date to the key condition without an index
RoutedToKey_IgnoresIndex(field, indexName) ==
    field \in {s_sk, s_date}

\* lines 371-383: TRUE when the fragment joins reqKeyConditionExpression
RoutedToKey(field, indexName) ==
    \/ field = s_sk
    \/ (Truthy(indexName) /\ field = s_date)

\* lines 347-356: the accumulators before the loop
LoopInit(pk) ==
    LET p == pkObj(pk)
    IN  [threw |-> p.attrValue = Unsupported,
         reqKeyConditionExpression |->
             << p.attrKeyName \o <<" ", "=", " ">> \o p.attrValueName >>,
         reqExpressionAttributeNames  |-> (p.attrKeyName :> p.attrKey),
         reqExpressionAttributeValues |-> (p.attrValueName :> p.attrValue),
         reqFilterExpression |-> <<>>,
         locals |-> <<>>]

\* lines 358-384: one iteration of the loop; h is what hashGenerator() returns
LoopBody(st, f, h, indexName) ==
    LET keyName    == keyNameOf(f.field)
        value2Name == value2NameOf(f.field)
        names1     == (keyName :> f.field) @@ st.reqExpressionAttributeNames
        valueName  ==
            IF valueNameOf(f.field) \in DOMAIN st.reqExpressionAttributeValues
            THEN valueNameOf(f.field) \o h
            ELSE valueNameOf(f.field)
        enc1       == toDynamoDBValue(f.value)
        values1    == (valueName :> enc1) @@ st.reqExpressionAttributeValues
        enc2       == toDynamoDBValue(f.value2)
        values2    == IF f.value2 # Undef
                      THEN (value2Name :> enc2) @@ values1
                      ELSE values1
        frag       == setOperator(keyName, valueName, value2Name, f.operator)
        toKey      == RoutedToKey(f.field, indexName)
    IN  IF enc1 = Unsupported \/ (f.value2 # Undef /\ enc2 = Unsupported)
        THEN [st EXCEPT !.threw = TRUE]
        ELSE [threw |-> FALSE,
              reqKeyConditionExpression |->
                  IF toKey THEN Append(st.reqKeyConditionExpression, frag)
                  ELSE st.reqKeyConditionExpression,
              reqExpressionAttributeNames  |-> names1,
              reqExpressionAttributeValues |-> values2,
              reqFilterExpression |->
                  IF toKey THEN st.reqFilterExpression
                  ELSE Append(st.reqFilterExpression, frag),
              locals |-> Append(st.locals,
                  [keyName |-> keyName, valueName |-> valueName,
                   value2Name |-> value2Name, toKey |-> toKey])]

RECURSIVE Loop(_, _, _, _, _)
Loop(st, filters, hashes, indexName, i) ==
    IF st.threw \/ i > Len(filters) THEN st
    ELSE Loop(LoopBody(st, filters[i], hashes[i], indexName),
              filters, hashes, indexName, i + 1)

\* a variant that emits FilterExpression for an empty fragment list as well
HasFilterExpression_Always(reqFilterExpression) ==
    Len(reqFilterExpression) >= 0

\* line 397: the condition under which FilterExpression is emitted
HasFilterExpression(reqFilterExpression) == isIterableArray(reqFilterExpression)

\* lines 386-402: the options literal, evaluated property by property;
\* a record [threw |-> name] stands for an exception
Options(r, st) ==
    LET keyOp    == convertLogicalOperator(
                        Default(r.keyConditionLogicalOperator, Str(AND)).v)
        filterOp == convertLogicalOperator(
                        Default(r.filterLogicalOperator, Str(AND)).v)
        startEnc == toDynamoDBValue(r.startKey)
    IN  IF keyOp = UnknownLogicalOperator
        THEN [threw |-> "UnknownLogicalOperator"]
        ELSE IF Truthy(r.startKey) /\ startEnc = Unsupported
        THEN [threw |-> "UnsupportedValueType"]
        ELSE IF HasFilterExpression(st.reqFilterExpression)
                /\ filterOp = UnknownLogicalOperator
        THEN [threw |-> "UnknownLogicalOperator"]
        ELSE [TableName |-> r.tableName,
              KeyConditionExpression |->
                  join(st.reqKeyConditionExpression, keyOp),
              ExpressionAttributeNames  |-> st.reqExpressionAttributeNames,
              ExpressionAttributeValues |-> st.reqExpressionAttributeValues,
              ScanIndexForward |-> (r.sort # Str("DESC")),
              Limit |-> Undef]
             @@ (IF Truthy(r.indexName)
                 THEN [IndexName |-> r.indexName] ELSE <<>>)
             @@ (IF Truthy(r.startKey)
                 THEN [ExclusiveStartKey |-> startEnc] ELSE <<>>)
             @@ (IF HasFilterExpression(st.reqFilterExpression)
                 THEN [FilterExpression |->
                          join(st.reqFilterExpression, filterOp)]
                 ELSE <<>>)

NoRequest == [tableName |-> "none"]
NoOutput  == [status |-> "none"]

\* the synchronous part of getList, up to the await of dbService.query
Compile(r, hashes) ==
    LET st   == Loop(LoopInit(r.pk), r.filters, hashes, r.indexName, 1)
        opts == IF st.threw THEN [threw |-> "UnsupportedValueType"]
                ELSE Options(r, st)
    IN  [status  |-> IF "threw" \in DOMAIN opts THEN opts.threw ELSE "query",
         built   |-> st,
         options |-> opts]

\* hashGenerator() is called only for a filter whose plain value placeholder
\* is already a key; the draw of every other iteration is never read and is
\* fixed to one value.
MayCollide(pk, filters, i) ==
    \/ valueNameOf(filters[i].field) = pkObj(pk).attrValueName
    \/ \E j \in 1..(i - 1) :
          valueNameOf(filters[i].field) \in
              {valueNameOf(filters[j].field), value2NameOf(filters[j].field)}

HashDraws(pk, filters) ==
    { hs \in [1..Len(filters) -> hashGenerator] :
        \A i \in 1..Len(filters) :
            MayCollide(pk, filters, i) \/ hs[i] = [n \in 1..HashLength |-> "0"] }

getList ==
    /\ lpc = "idle"
    /\ \E pk \in PkChoices, filters \in FilterLists,
          kop \in KeyOperatorChoices, fop \in FilterOperatorChoices,
          paging \in PagingChoices,
          indexName \in IndexNameChoices :
          \E hashes \in HashDraws(pk, filters) :
             LET r == [tableName |-> "t", pk |-> pk, filters |-> filters,
                       keyConditionLogicalOperator |-> kop,
                       filterLogicalOperator |-> fop,
                       sort |-> paging.sort, startKey |-> paging.startKey,
                       indexName |-> indexName]
                 o == Compile(r, hashes)
             IN  /\ req' = r
                 /\ out' = o
                 /\ lpc' = IF o.status = "query" THEN "querying" ELSE "thrown"
    /\ UNCHANGED updVars

\* lines 404-414: the query answered with Items; the call returns
QueryReturns ==
    /\ lpc = "querying"
    /\ lpc' = "idle"
    /\ req' = NoRequest
    /\ out' = NoOutput
    /\ UNCHANGED updVars

\* lines 409-417: no response, or the client threw; handleError rethrows
QueryFails ==
    /\ lpc = "querying"
    /\ lpc' = "thrown"
    /\ req' = NoRequest
    /\ out' = [status |-> "StorageError"]
    /\ UNCHANGED updVars

InitList ==
    /\ lpc = "idle"
    /\ req = NoRequest
    /\ out = NoOutput
    /\ store = <<>>
    /\ data = <<>>
    /\ call = <<>>
    /\ clock = 0

\* the caller receives the rejection; the call is over
getListRejects ==
    /\ lpc = "thrown"
    /\ lpc' = "idle"
    /\ req' = NoRequest
    /\ out' = NoOutput
    /\ UNCHANGED updVars

NextList == getList \/ QueryReturns \/ QueryFails \/ getListRejects

SpecList == InitList /\ [][NextList]_vars

-----------------------------------------------------------------------------
(* updateItem: the merge loop, src/src/DynamoODM.ts lines 238-279 *)

\* items, documents and object payloads are functions from names to values
Has(obj, name)  == name \in DOMAIN obj
Get(obj, name)  == IF name \in DOMAIN obj THEN obj[name] ELSE Undef
Set(obj, name, value) == (name :> value) @@ obj
Without(obj, name) == [n \in (DOMAIN obj) \ {name} |-> obj[n]]

IsArray(x) == x.k = "arr"

Last(s) == s[Len(s)]
Front(s) == SubSeq(s, 1, Len(s) - 1)
Includes(s, v) == \E i \in 1..Len(s) : s[i] = v

\* a variant that keeps duplicates
SetOf_KeepsDuplicates(source) == source

\* [...new Set(source)]: insertion order, first occurrence kept
RECURSIVE SetOf(_)
SetOf(source) ==
    IF source = <<>> THEN <<>>
    ELSE IF Includes(SetOf(Front(source)), Last(source))
         THEN SetOf(Front(source))
         ELSE Append(SetOf(Front(source)), Last(source))

\* a variant that puts the previous elements before the added ones
SetSource_PreviousFirst(add, prev) ==
    IF Truthy(add)
    THEN prev.v \o add.v
    ELSE CASE prev.k = "arr" -> prev.v
           [] prev.k \in {"undef", "null"} -> <<>>

\* lines 244-250: what the Set is built from.  prev is previousData[attr]
\* after line 243; a stored value that is neither an array nor absent is
\* outside the modelled inputs.
SetSource(add, prev) ==
    IF Truthy(add)
    THEN add.v \o prev.v
    ELSE CASE prev.k = "arr" -> prev.v
           [] prev.k \in {"undef", "null"} -> <<>>

\* line 251: arrValue.filter((v) => !data[attr].remove?.includes(v))
RemoveFilter(arrValue, remove) ==
    IF remove = Undef THEN arrValue
    ELSE LET keep(v) == ~Includes(remove.v, v)
         IN  SelectSeq(arrValue, keep)

\* lines 252-255: the spread of (length > 0 && {[attr]: value})
WriteArray(requestData, attr, value) ==
    IF Len(value) > 0 THEN Set(requestData, attr, Arr(value)) ELSE requestData

\* a variant that overlays the top level only
merge_Shallow(object, source) ==
    [n \in DOMAIN object \cup DOMAIN source |->
        IF Has(source, n) THEN source[n] ELSE object[n]]

\* _.merge(object, source) of lodash, for plain objects, arrays of scalars and
\* scalars: source wins, nested plain objects merge recursively, an undefined
\* source value does not replace an existing one
RECURSIVE merge(_, _)
merge(object, source) ==
    [n \in DOMAIN object \cup DOMAIN source |->
        IF ~Has(source, n) THEN object[n]
        ELSE IF ~Has(object, n) THEN source[n]
        ELSE IF source[n].k = "undef" THEN object[n]
        ELSE IF source[n].k = "obj" /\ object[n].k = "obj"
             THEN Obj(merge(object[n].v, source[n].v))
        ELSE IF source[n].k = "arr" /\ object[n].k = "arr"
             THEN Arr([i \in 1..(IF Len(source[n].v) > Len(object[n].v)
                                 THEN Len(source[n].v) ELSE Len(object[n].v)) |->
                          IF i <= Len(source[n].v) THEN source[n].v[i]
                          ELSE object[n].v[i]])
        ELSE source[n]]

\* lines 261-270: seed when the attribute is falsy, then _.merge in place
ObjectAdd(requestData, attr, add) ==
    LET seeded == IF ~Truthy(Get(requestData, attr))
                  THEN Set(requestData, attr, Obj(add.v))
                  ELSE requestData
    IN  IF seeded[attr].k = "obj"
        THEN Set(seeded, attr, Obj(merge(seeded[attr].v, add.v)))
        ELSE seeded

\* line 272: _.unset(requestData?.[attr], key), key a plain property name
ObjectRemove(requestData, attr, key) ==
    IF Get(requestData, attr).k = "obj"
    THEN Set(requestData, attr, Obj(Without(requestData[attr].v, key)))
    ELSE requestData

\* lines 241, 256-260, 271: which rule an update value selects
IsArrayMerge(d)   == IsArray(Prop(d, "add")) \/ IsArray(Prop(d, "remove"))
IsObjectAdd(d)    == Truthy(Prop(d, "add")) /\ ~IsArray(Prop(d, "add"))
IsObjectRemove(d) == Truthy(Prop(d, "remove")) /\ Prop(d, "remove").k = "str"

\* lines 241-278: one iteration of  for (const attr in data).
\* m = [requestData, data, previousData]
MergeAttr(m, attr) ==
    LET d      == m.data[attr]
        add    == Prop(d, "add")
        remove == Prop(d, "remove")
    IN  IF IsArrayMerge(d)
        THEN LET previousData ==
                     IF add # Undef /\ ~Truthy(Get(m.previousData, attr))
                     THEN Set(m.previousData, attr, Arr(<<>>))
                     ELSE m.previousData
                 arrValue == SetOf(SetSource(add, Get(previousData, attr)))
                 value    == RemoveFilter(arrValue, remove)
             IN  [requestData  |-> WriteArray(m.requestData, attr, value),
                  data         |-> Set(m.data, attr, Arr(value)),
                  previousData |-> previousData]
        ELSE IF IsObjectAdd(d)
        THEN [m EXCEPT !.requestData = ObjectAdd(m.requestData, attr, add)]
        ELSE IF IsObjectRemove(d)
        THEN [m EXCEPT !.requestData = ObjectRemove(m.requestData, attr, remove.v)]
        ELSE [m EXCEPT !.requestData = Set(m.requestData, attr, d)]

\* lines 238-279.  An iteration reads and writes only its own attribute of
\* requestData, data and previousData, so the order of the keys is immaterial.
RECURSIVE MergeLoop(_, _)
MergeLoop(m, attrs) ==
    IF attrs = {} THEN m
    ELSE LET attr == CHOOSE a \in attrs : TRUE
         IN  MergeLoop(MergeAttr(m, attr), attrs \ {attr})

\* a variant that builds the item from the update document alone
mergeUpdate_StartsEmpty(previousData, doc) ==
    MergeLoop([requestData |-> <<>>, data |-> doc,
               previousData |-> previousData], DOMAIN doc)

mergeUpdate(previousData, doc) ==
    MergeLoop([requestData |-> previousData, data |-> doc,
               previousData |-> previousData], DOMAIN doc)

-----------------------------------------------------------------------------
(* updateItem: inputs *)

Elems == {Str("x"), Str("y")}

SeqsUpTo(n) == UNION { [1..k -> Elems] : k \in 0..n }

K1 == [pk |-> Str("a"), sk |-> Str("b")]
K2 == [pk |-> Str("a"), sk |-> Str("c")]
Keys == {K1, K2}

BaseItem == [pk |-> Str("a"), sk |-> Str("b"), name |-> Str("n")]

\* what the table holds under K1 at the start
ItemChoices ==
    { BaseItem,
      [pk |-> Str("a"), sk |-> Str("b"), tags |-> Arr(<<Str("x"), Str("y")>>)] }
    \cup { Set(BaseItem, "tags", Arr(p)) : p \in SeqsUpTo(MaxLen) }
    \cup { Set(BaseItem, "meta", Obj(o)) :
             o \in { [a |-> Num(1), b |-> Num(2)],
                     [a |-> Num(1)],
                     [oldKey |-> Str("o"), n |-> Obj([p |-> Num(1)])],
                     [a |-> Num(1), n |-> Obj([p |-> Num(1), r |-> Num(4)]),
                      l |-> Arr(<<Str("x"), Str("y")>>)] } }

\* {add: a, remove: r}, either part left out when Undef
Directive(add, remove) ==
    Obj((IF add = Undef THEN <<>> ELSE [add |-> add])
        @@ (IF remove = Undef THEN <<>> ELSE [remove |-> remove]))

ArrayDirectives ==
    { Directive(a, r) :
        a \in {Undef} \cup { Arr(x) : x \in SeqsUpTo(MaxLen) },
        r \in {Undef} \cup { Arr(x) : x \in SeqsUpTo(MaxRemove) } }
    \ { Directive(Undef, Undef) }

\* the update documents a caller builds
DocChoices ==
    { [tags |-> d] : d \in ArrayDirectives }
    \cup { [tags |-> Directive(Arr(<<Str("y"), Str("z")>>), Undef)],
           [meta |-> Directive(Undef, Str("a"))],
           [meta |-> Directive(Obj([b |-> Num(2)]), Undef)],
           [meta |-> Directive(Obj([newKey1 |-> Str("v1"), newKey2 |-> Str("v2")]),
                               Str("oldKey"))],
           [meta |-> Directive(Obj([n |-> Obj([q |-> Num(2)])]), Undef)],
           [meta |-> Directive(Obj([a |-> Num(9),
                                    n |-> Obj([p |-> Num(2), q |-> Num(3)]),
                                    l |-> Arr(<<Str("z")>>)]), Undef)],
           [name |-> Str("m")],
           [sk |-> Str("c")],
           [tags |-> Arr(<<Str("z")>>)],
           [name |-> Str("m"), tags |-> Directive(Arr(<<Str("x")>>), Undef)],
           [tags |-> Directive(Undef, Arr(<<Str("x")>>)),
            meta |-> Directive(Undef, Str("a"))] }

-----------------------------------------------------------------------------
(* updateItem: src/src/DynamoODM.ts lines 212-307, and the table behind    *)
(* DynamoDBService.getItem / putItem                                       *)

\* an item without its time stamp
Body(item) == Without(item, "updated_at")

\* new Date().toISOString()
toISOString(t) == Str("T" \o NumToString(t))

NoCall == [pc |-> "idle"]

\* what the call that just ended leaves for comparison with the next one
Ended(c) ==
    IF call[c].pc \in {"reget", "done"} \/ (call[c].pc = "thrown" /\ "attributes" \in DOMAIN call[c])
    THEN [doc |-> call[c].doc, previousData |-> call[c].previousData,
          attributes |-> call[c].attributes]
    ELSE IF "last" \in DOMAIN call[c] THEN call[c].last
    ELSE [doc |-> "none"]

\* lines 212-226: the call takes its time stamp and asks for the item
updateItem(c) ==
    /\ call[c].pc \in {"idle", "done", "thrown"}
    /\ clock < MaxClock
    /\ \E key \in Keys, doc \in DOMAIN data :
          call' = [call EXCEPT ![c] =
                      [pc |-> "get", key |-> key, doc |-> doc,
                       timeStamp |-> toISOString(clock), last |-> Ended(c)]]
    /\ clock' = clock + 1
    /\ UNCHANGED <<store, data, listVars>>

\* history: the calls (by time stamp) on the same key that hold a snapshot
\* they have not yet written when caller c's getItem answers
Pending(c) ==
    { call[d].timeStamp : d \in { e \in DOMAIN call \ {c} :
                                    /\ call[e].pc = "put"
                                    /\ call[e].key = call[c].key } }

\* lines 228-286: getItem answers; without an item the call throws, with one
\* the merge loop runs and putItem is sent
getItemResponds(c) ==
    /\ call[c].pc = "get"
    /\ IF call[c].key \in DOMAIN store
       THEN LET previousData == store[call[c].key]
                m == mergeUpdate(previousData, data[call[c].doc])
            IN  /\ data' = [data EXCEPT ![call[c].doc] = m.data]
                /\ call' = [call EXCEPT ![c] =
                       [pc |-> "put", previousData |-> previousData,
                        pending |-> Pending(c),
                        dataBefore |-> data[call[c].doc],
                        dataAfter |-> m.data,
                        requestData |-> m.requestData,
                        attributes |-> Set(m.requestData, "updated_at",
                                           call[c].timeStamp)]
                       @@ call[c]]
       ELSE /\ call' = [call EXCEPT ![c] =
                       [pc |-> "thrown", error |-> "NoPreviousData"] @@ call[c]]
            /\ UNCHANGED data
    /\ UNCHANGED <<store, clock, listVars>>

\* the key schema of the table: pk and sk, both strings
KeyOf(attributes) == [pk |-> attributes.pk, sk |-> attributes.sk]
HasKey(attributes) ==
    /\ Get(attributes, "pk").k = "str"
    /\ Get(attributes, "sk").k = "str"

\* a variant whose put is conditional on the item being the one that was read
putItemResponds_Conditional(c) ==
    /\ call[c].pc = "put"
    /\ IF /\ HasKey(call[c].attributes)
          /\ Body(store[call[c].key]) = Body(call[c].previousData)
       THEN /\ store' = Set(store, KeyOf(call[c].attributes), call[c].attributes)
            /\ call' = [call EXCEPT ![c] = [pc |-> "reget"] @@ call[c]]
       ELSE /\ call' = [call EXCEPT ![c] =
                       [pc |-> "thrown", error |-> "ConditionalCheckFailedException"]
                       @@ call[c]]
            /\ UNCHANGED store
    /\ UNCHANGED <<data, clock, listVars>>

\* lines 281-297 and DynamoDBService.putItem: the table replaces the item
\* under the key the attributes carry, or rejects attributes without a key
putItemResponds(c) ==
    /\ call[c].pc = "put"
    /\ IF HasKey(call[c].attributes)
       THEN /\ store' = Set(store, KeyOf(call[c].attributes), call[c].attributes)
            /\ call' = [call EXCEPT ![c] = [pc |-> "reget"] @@ call[c]]
       ELSE /\ call' = [call EXCEPT ![c] =
                       [pc |-> "thrown", error |-> "ValidationException"]
                       @@ call[c]]
            /\ UNCHANGED store
    /\ UNCHANGED <<data, clock, listVars>>

\* lines 294-306: the item is read back and returned
updateItemReturns(c) ==
    /\ call[c].pc = "reget"
    /\ call' = [call EXCEPT ![c] =
           (IF call[c].key \in DOMAIN store
            THEN [pc |-> "done", result |-> store[call[c].key]]
            ELSE [pc |-> "thrown", error |-> "NoResponse"]) @@ call[c]]
    /\ UNCHANGED <<store, data, clock, listVars>>

Init ==
    /\ \E item \in ItemChoices : store = (K1 :> item)
    /\ \E doc \in DocChoices : data = ("d1" :> doc)
    /\ call = ("c1" :> NoCall)
    /\ clock = 0
    /\ lpc = "idle"
    /\ req = NoRequest
    /\ out = NoOutput

Next ==
    \/ \E c \in DOMAIN call : updateItem(c)
    \/ \E c \in DOMAIN call : getItemResponds(c)
    \/ \E c \in DOMAIN call : putItemResponds(c)
    \/ \E c \in DOMAIN call : updateItemReturns(c)

Spec == Init /\ [][Next]_vars

\* two callers, each with its own update document, and one stored item
RaceItems == { BaseItem, Set(BaseItem, "tags", Arr(<<Str("x")>>)) }

RaceDocs ==
    { [name |-> Str("m")],
      [tags |-> Directive(Arr(<<Str("y")>>), Undef)],
      [meta |-> Directive(Obj([b |-> Num(2)]), Undef)],
      [name |-> Str("k"), tags |-> Directive(Undef, Arr(<<Str("x")>>))] }

InitRace ==
    /\ \E item \in RaceItems : store = (K1 :> item)
    /\ \E d1 \in RaceDocs, d2 \in RaceDocs : data = ("d1" :> d1) @@ ("d2" :> d2)
    /\ call = ("c1" :> NoCall) @@ ("c2" :> NoCall)
    /\ clock = 0
    /\ lpc = "idle"
    /\ req = NoRequest
    /\ out = NoOutput

SpecRace == InitRace /\ [][Next]_vars

-----------------------------------------------------------------------------
(* updateItem: properties, checked under Spec *)

\* caller c's merge loop has run: its locals are those of this call
Merged(c) == "attributes" \in DOMAIN call[c]

\* the array an array-merge directive d carries under name, empty when left out
Part(d, name) == IF IsArray(Prop(d, name)) THEN Prop(d, name).v ELSE <<>>

\* the previous array at attr, empty when the attribute is absent
Prev(c, attr) ==
    IF IsArray(Get(call[c].previousData, attr))
    THEN call[c].previousData[attr].v ELSE <<>>

Elements(s) == { s[i] : i \in 1..Len(s) }

\* the attributes of the document passed in that carry an array-merge directive
ArrayMerged(c) ==
    { attr \in DOMAIN call[c].dataBefore :
        LET d == call[c].dataBefore[attr]
        IN  d.k = "obj" /\ (IsArray(Prop(d, "add")) \/ IsArray(Prop(d, "remove"))) }

\* the elements the directive leaves: add and previous ones, less the removed
Remaining(c, attr) ==
    (Elements(Part(call[c].dataBefore[attr], "add")) \cup Elements(Prev(c, attr)))
        \ Elements(Part(call[c].dataBefore[attr], "remove"))

\* C1: when an array-merge directive leaves no element, the item handed to
\* putItem has no such attribute, whatever the previous item held.
C1_EmptyArrayOmitted ==
    \A c \in DOMAIN call :
        Merged(c) =>
            \A attr \in ArrayMerged(c) :
                Remaining(c, attr) = {} => attr \notin DOMAIN call[c].attributes

\* the item and the document of the example of C3
C3_Case(c) ==
    /\ Merged(c)
    /\ call[c].previousData
          = [pk |-> Str("a"), sk |-> Str("b"), tags |-> Arr(<<Str("x"), Str("y")>>)]
    /\ call[c].dataBefore
          = [tags |-> Obj([add |-> Arr(<<Str("y"), Str("z")>>)])]

\* C3 as claimed: previous tags [x, y] and add [y, z] write tags [z, x, y].
C3_TagsZXY ==
    \A c \in DOMAIN call :
        C3_Case(c) =>
            call[c].attributes["tags"] = Arr(<<Str("z"), Str("x"), Str("y")>>)

\* C3 amended: previous tags [x, y] and add [y, z] write tags [y, z, x]: the
\* add elements in their order, then the previous elements not yet present.
C3_TagsYZX ==
    \A c \in DOMAIN call :
        C3_Case(c) =>
            /\ "tags" \in DOMAIN call[c].attributes
            /\ call[c].attributes["tags"] = Arr(<<Str("y"), Str("z"), Str("x")>>)

\* C3 witness: the example's call has handed its item to putItem
C3_Witness ==
    \E c \in DOMAIN call : C3_Case(c) /\ call[c].pc = "put"

\* the place of the first occurrence of v in s
FirstIndex(s, v) == CHOOSE i \in 1..Len(s) : s[i] = v /\ \A j \in 1..(i - 1) : s[j] # v

KeyRemoved(c) ==
    { attr \in DOMAIN call[c].dataBefore :
        LET d == call[c].dataBefore[attr]
        IN  /\ d.k = "obj"
            /\ Prop(d, "remove").k = "str"
            /\ Prop(d, "add").k \in {"undef", "obj"}
            /\ Get(call[c].previousData, attr).k = "obj"
            /\ Prop(d, "remove").v \in DOMAIN call[c].previousData[attr].v }

\* C5: remove: k deletes key k of the object at the attribute and keeps its
\* other keys, with or without an add object in the same directive.
C5_KeyRemoved ==
    \A c \in DOMAIN call :
        Merged(c) =>
            \A attr \in KeyRemoved(c) :
                LET k   == call[c].dataBefore[attr].v["remove"].v
                    old == call[c].previousData[attr].v
                    new == Get(call[c].attributes, attr)
                IN  /\ new.k = "obj"
                    /\ k \notin DOMAIN new.v
                    /\ (DOMAIN old) \ {k} \subseteq DOMAIN new.v

\* C6: the merge leaves the caller's document as it was passed in, and a
\* second call with the same document object on an equal previous item hands
\* putItem the same body, updated_at apart.
C6_MergeIsPure ==
    \A c \in DOMAIN call :
        Merged(c) =>
            /\ call[c].dataAfter = call[c].dataBefore
            /\ (/\ call[c].last.doc = call[c].doc
                /\ Body(call[c].last.previousData) = Body(call[c].previousData))
                  => Body(call[c].last.attributes) = Body(call[c].attributes)

\* the attributes of the document passed in that carry an object-add
\* directive: add is an object, not an array, and remove is not an array
ObjectAdded(c) ==
    { attr \in DOMAIN call[c].dataBefore :
        LET d == call[c].dataBefore[attr]
        IN  /\ d.k = "obj"
            /\ Prop(d, "add").k = "obj"
            /\ ~IsArray(Prop(d, "remove")) }

\* the previous object at attr, empty when the attribute is absent
PrevObject(c, attr) ==
    IF Get(call[c].previousData, attr).k = "obj"
    THEN call[c].previousData[attr].v ELSE <<>>

\* N is P overlaid with O: the keys are those of both, a key of P alone keeps
\* its value, a key of O takes O's value, and where both hold a nested object
\* (or both an array, its indices being the keys) the two are overlaid in turn
RECURSIVE Overlaid(_, _, _)
Overlaid(P, O, N) ==
    /\ DOMAIN N = DOMAIN P \cup DOMAIN O
    /\ \A k \in DOMAIN N :
          IF k \notin DOMAIN O THEN N[k] = P[k]
          ELSE IF k \notin DOMAIN P THEN N[k] = O[k]
          ELSE IF O[k].k = "obj" /\ P[k].k = "obj"
               THEN N[k].k = "obj" /\ Overlaid(P[k].v, O[k].v, N[k].v)
          ELSE IF O[k].k = "arr" /\ P[k].k = "arr"
               THEN N[k].k = "arr" /\ Overlaid(P[k].v, O[k].v, N[k].v)
          ELSE N[k] = O[k]

C13_KeyImmutable ==
    /\ \A c \in DOMAIN call :
          Merged(c) =>
              /\ Get(call[c].attributes, "pk") = call[c].key.pk
              /\ Get(call[c].attributes, "sk") = call[c].key.sk
    /\ DOMAIN store \subseteq {K1}

\* C15: every attribute of the previous item that the update document does
\* not name, updated_at apart, is in the item handed to putItem with its
\* previous value, and that item carries the call's time stamp as updated_at;
\* a call on a key without an item fails without a put and the key stays
\* without an item.
C15_OnlyNamedAttributesChange ==
    \A c \in DOMAIN call :
        /\ Merged(c) =>
              /\ \A attr \in (DOMAIN call[c].previousData)
                               \ (DOMAIN call[c].dataBefore \cup {"updated_at"}) :
                    /\ attr \in DOMAIN call[c].attributes
                    /\ call[c].attributes[attr] = call[c].previousData[attr]
              /\ "updated_at" \in DOMAIN call[c].attributes
              /\ call[c].attributes["updated_at"] = call[c].timeStamp
        /\ (call[c].pc \in {"put", "reget", "done"}) => Merged(c)
        /\ (call[c].pc = "thrown" /\ call[c].error = "NoPreviousData") =>
              /\ ~Merged(c)
              /\ call[c].key \notin DOMAIN store

\* C15 witness: a document naming only name was merged into an item that
\* also holds an object, and the item handed to putItem has the object as it
\* was, the new name and the time stamp
C15_Witness ==
    \E c \in DOMAIN call :
        /\ call[c].pc = "put"
        /\ call[c].dataBefore = [name |-> Str("m")]
        /\ call[c].previousData = Set(BaseItem, "meta", Obj([a |-> Num(1)]))
        /\ call[c].attributes
              = [pk |-> Str("a"), sk |-> Str("b"), name |-> Str("m"),
                 meta |-> Obj([a |-> Num(1)]), updated_at |-> call[c].timeStamp]

-----------------------------------------------------------------------------
(* updateItem: two callers, checked under SpecRace *)

\* the calls of c and d are on one key and each read the item while the
\* other had not yet written: one of them read while the other held its
\* snapshot, and neither has put before both had read
Interleaved(c, d) ==
    /\ c # d
    /\ Merged(c) /\ Merged(d)
    /\ call[c].key = call[d].key
    /\ \/ call[d].timeStamp \in call[c].pending
       \/ call[c].timeStamp \in call[d].pending

\* the attributes only the document of caller d names
OnlyIn(d, c) == (DOMAIN call[d].dataBefore) \ (DOMAIN call[c].dataBefore)

\* C12: when two updateItem calls on one key have both read the item before
\* either wrote, neither fails, and the put that comes last stores the merge
\* its call computed from its own snapshot: an attribute only the other
\* call changed is stored as the last writer's snapshot held it.
C12_LastWriterWins ==
    [][\A c, d \in DOMAIN call :
          Interleaved(c, d) =>
            /\ call'[c].pc # "thrown" /\ call'[d].pc # "thrown"
            /\ (/\ call[c].pc = "put" /\ call'[c].pc # "put"
                /\ call[d].pc \in {"reget", "done"})
                  => /\ store'[call[c].key]
                           = Set(mergeUpdate(call[c].previousData,
                                             call[c].dataBefore).requestData,
                                 "updated_at", call[c].timeStamp)
                     /\ \A attr \in OnlyIn(d, c) :
                           Get(store'[call[c].key], attr)
                             = Get(call[c].previousData, attr)]_vars

\* C12 witness: both calls have returned, the first writer changed name and
\* its item held the new name, and the stored item has the old name again
C12_Witness ==
    \E c, d \in DOMAIN call :
        /\ Interleaved(c, d)
        /\ call[c].pc = "done" /\ call[d].pc = "done"
        /\ call[d].dataBefore = [name |-> Str("m")]
        /\ call[d].attributes["name"] = Str("m")
        /\ "name" \notin DOMAIN call[c].dataBefore
        /\ store[call[c].key] = call[c].attributes
        /\ store[call[c].key]["name"] = Str("n")

-----------------------------------------------------------------------------
(* getList: properties, checked under SpecList *)

\* the loop of the call in progress ran to its end
LoopDone == "built" \in DOMAIN out /\ ~out.built.threw

\* the filters of the request that the routing rule sends to the key condition
KeyRouted(i) ==
    \/ req.filters[i].field = s_sk
    \/ (req.filters[i].field = s_date /\ req.indexName # Undef)

\* every case variant of a word
CaseVariants(word) ==
    { s \in [1..Len(word) -> {word[i] : i \in 1..Len(word)}
                              \cup {ToLowerChar(word[i]) : i \in 1..Len(word)}] :
        \A i \in 1..Len(word) : s[i] \in {word[i], ToLowerChar(word[i])} }

\* the join operator is AND or OR in some letter case (left out: the default AND)
ValidJoin(op) == op = Undef \/ op.v \in CaseVariants(AND) \cup CaseVariants(OR)

\* the placeholders under which the call stored a value, in the order of the
\* stores: the partition key's, then each filter's value and value2
RECURSIVE StoredUnder(_)
StoredUnder(n) ==
    IF n = 0 THEN << pkObj(req.pk).attrValueName >>
    ELSE StoredUnder(n - 1)
         \o << out.built.locals[n].valueName >>
         \o (IF req.filters[n].value2 # Undef
             THEN << out.built.locals[n].value2Name >> ELSE <<>>)

\* C2: no entry of ExpressionAttributeValues is overwritten: the partition key
\* and every filter's value and value2 are stored under pairwise different
\* placeholders, and each placeholder resolves to the filter's own encoded value.
C2_NoValueOverwritten ==
    LoopDone =>
        LET slots  == StoredUnder(Len(req.filters))
            values == out.built.reqExpressionAttributeValues
        IN  /\ \A i, j \in 1..Len(slots) : i # j => slots[i] # slots[j]
            /\ \A n \in 1..Len(req.filters) :
                  /\ values[out.built.locals[n].valueName]
                        = toDynamoDBValue(req.filters[n].value)
                  /\ req.filters[n].value2 # Undef =>
                        values[out.built.locals[n].value2Name]
                            = toDynamoDBValue(req.filters[n].value2)

NoForbiddenAfterFirst(name) ==
    \A i \in 2..Len(name) : name[i] \notin ForbiddenChars

IsPrefix(p, t) == Len(p) <= Len(t) /\ SubSeq(t, 1, Len(p)) = p

\* C7: every filter's name placeholder is # + sanitize(field), its value
\* placeholder starts with : + sanitize(field), and no key of
\* ExpressionAttributeNames or ExpressionAttributeValues has a forbidden
\* character after its leading # or :.
C7_PlaceholdersSanitized ==
    LoopDone =>
        /\ \A n \in 1..Len(req.filters) :
              /\ out.built.locals[n].keyName
                    = <<"#">> \o replaceSymbol(req.filters[n].field)
              /\ IsPrefix(<<":">> \o replaceSymbol(req.filters[n].field),
                          out.built.locals[n].valueName)
        /\ \A name \in DOMAIN out.built.reqExpressionAttributeNames :
              NoForbiddenAfterFirst(name)
        /\ \A name \in DOMAIN out.built.reqExpressionAttributeValues :
              NoForbiddenAfterFirst(name)

\* the fragment the call built for filter n
FragmentOf(n) ==
    setOperator(out.built.locals[n].keyName, out.built.locals[n].valueName,
                out.built.locals[n].value2Name, req.filters[n].operator)

RECURSIVE FragmentsWhere(_, _)
FragmentsWhere(n, toKey) ==
    IF n = 0 THEN <<>>
    ELSE FragmentsWhere(n - 1, toKey)
         \o (IF KeyRouted(n) = toKey THEN << FragmentOf(n) >> ELSE <<>>)

\* C8: a filter on sk always joins the key-condition fragments, a filter on
\* date joins them exactly when indexName is supplied, every other filter joins
\* the filter fragments; position and operator play no part.
C8_Routing ==
    LoopDone =>
        /\ Tail(out.built.reqKeyConditionExpression)
              = FragmentsWhere(Len(req.filters), TRUE)
        /\ out.built.reqFilterExpression
              = FragmentsWhere(Len(req.filters), FALSE)
        /\ out.status = "query" =>
              /\ out.options.KeyConditionExpression
                    = join(out.built.reqKeyConditionExpression,
                           toUpperCase(Default(req.keyConditionLogicalOperator,
                                               Str(AND)).v))
              /\ (\E n \in 1..Len(req.filters) : ~KeyRouted(n)) =>
                    out.options.FilterExpression
                        = join(out.built.reqFilterExpression,
                               toUpperCase(Default(req.filterLogicalOperator,
                                                   Str(AND)).v))

\* C8 witness: a query went out with an index named and, in this order, a
\* filter on another field, one on date and one on sk (not the default operator)
C8_Witness ==
    /\ lpc = "querying"
    /\ req.indexName # Undef
    /\ Len(req.filters) = 2
    /\ req.filters[1].field = s_date
    /\ req.filters[2].field = s_sk
    /\ req.filters[2].operator = s_begins_with
    /\ Len(out.built.reqKeyConditionExpression) = 3

\* op as a token of its own: a blank, the upper-cased operator, a blank
Spaced(op) == <<" ">> \o toUpperCase(Default(op, Str(AND)).v) \o <<" ">>

\* C14: for a join operator AND or OR in any letter case, KeyConditionExpression
\* is the partition-key fragment and the key-routed fragments in filter-list
\* order with the upper-cased operator as a blank-delimited token between
\* consecutive fragments, and FilterExpression is built likewise from the
\* filter-routed fragments.
C14_JoinedAsTokens ==
    (LoopDone /\ out.status = "query") =>
        /\ out.options.KeyConditionExpression
              = join(out.built.reqKeyConditionExpression,
                     Spaced(req.keyConditionLogicalOperator))
        /\ "FilterExpression" \in DOMAIN out.options =>
              out.options.FilterExpression
                  = join(out.built.reqFilterExpression,
                         Spaced(req.filterLogicalOperator))

\* C9 as claimed: an invalid join operator, key or filter, always makes the
\* call fail with the unknown-logical-operator error and no query is issued
\* (stated for requests all of whose values encode).
C9_AnyInvalidOperatorFails ==
    (LoopDone /\ toDynamoDBValue(req.startKey) # Unsupported
       /\ (~ValidJoin(req.keyConditionLogicalOperator)
           \/ ~ValidJoin(req.filterLogicalOperator)))
    => (out.status = "UnknownLogicalOperator" /\ lpc = "thrown")

\* C9 amended: with every filter value and the partition key encodable, the
\* call fails with the unknown-logical-operator error, before any query,
\* exactly when the key operator is invalid, or the start key encodes and the
\* filter operator is invalid and some filter was routed to the filter
\* fragments; an unused invalid filter operator is never examined.  Case
\* variants of AND and OR are accepted.
C9_InvalidOperatorFailsWhenUsed ==
    LoopDone =>
        /\ out.status = "UnknownLogicalOperator"
              <=> \/ ~ValidJoin(req.keyConditionLogicalOperator)
                  \/ /\ toDynamoDBValue(req.startKey) # Unsupported
                     /\ ~ValidJoin(req.filterLogicalOperator)
                     /\ \E n \in 1..Len(req.filters) : ~KeyRouted(n)
        /\ out.status = "UnknownLogicalOperator" => lpc = "thrown"
        /\ (/\ ValidJoin(req.keyConditionLogicalOperator)
            /\ ValidJoin(req.filterLogicalOperator)
            /\ toDynamoDBValue(req.startKey) # Unsupported)
              => (out.status = "query" /\ lpc = "querying")

\* C9 witness: a lower-case key operator was accepted and an invalid filter
\* operator, used by a filter-routed fragment, made the call throw
C9_Witness ==
    /\ lpc = "thrown"
    /\ out.status = "UnknownLogicalOperator"
    /\ req.keyConditionLogicalOperator = Str(<<"a", "n", "d">>)
    /\ ~ValidJoin(req.filterLogicalOperator)
    /\ Len(out.built.reqFilterExpression) > 0

\* C10: the descriptor has a FilterExpression exactly when some filter was
\* routed to the filter fragments; for a scalar partition key and no filters it
\* is #pk = :pk, {#pk: pk}, {:pk: encode(v)} and no FilterExpression.
C10_FilterExpressionPresence ==
    out.status = "query" =>
        /\ "FilterExpression" \in DOMAIN out.options
              <=> \E n \in 1..Len(req.filters) : ~out.built.locals[n].toKey
        /\ (req.pk.k # "entries" /\ req.filters = <<>>) =>
              /\ out.options.KeyConditionExpression
                    = <<"#", "p", "k", " ", "=", " ", ":", "p", "k">>
              /\ out.options.ExpressionAttributeNames
                    = (<<"#", "p", "k">> :> <<"p", "k">>)
              /\ out.options.ExpressionAttributeValues
                    = (<<":", "p", "k">> :>
                          (IF req.pk = Num(42) THEN Str("42") ELSE req.pk))
              /\ "FilterExpression" \notin DOMAIN out.options

\* C10 witness: a query with a numeric partition key and no filters went out
C10_Witness ==
    /\ lpc = "querying"
    /\ req.pk = Num(42)
    /\ req.filters = <<>>
    /\ "FilterExpression" \notin DOMAIN out.options

=============================================================================
